---------------------------- MODULE Spec2Model ----------------------------
(***************************************************************************)
(* Model of the per-call bridge of src/server.js (second iteration, lines  *)
(* 513-746): one telephony socket (twilioWS), one agent socket (oaWS), the *)
(* audio path between them, the text-token scanner and the SMS dispatcher. *)
(*                                                                         *)
(* Text is a sequence of one-character strings.  A base64 payload is       *)
(* modelled by the bytes it decodes to (base64 itself is not under study). *)
(***************************************************************************)
EXTENDS Integers, Sequences, FiniteSets, TLC

(***************************************************************************)
(* Bounds of the model (not program constants).                            *)
(***************************************************************************)
MaxInputs == 3  \* start events, forwarded media events, text and audio deltas per call
MaxTasks  == 2  \* agent-message handlers suspended at an await at one time

NULL == "null"

(***************************************************************************)
(* Strings                                                                 *)
(***************************************************************************)
WS == {" ", "\n"}                     \* the \s characters of the alphabet

KW_MENU_SEARCH == <<"[","[","M","E","N","U","_","S","E","A","R","C","H",":">>
TOK_MENU_DAY      == <<"[","[","S","E","N","D",":","M","E","N","U","_","D","A","Y","]","]">>
TOK_MENU_DINNER   == <<"[","[","S","E","N","D",":","M","E","N","U","_","D","I","N","N","E","R","]","]">>
TOK_MENU_BEVERAGE == <<"[","[","S","E","N","D",":","M","E","N","U","_","B","E","V","E","R","A","G","E","]","]">>
TOK_OPENTABLE     == <<"[","[","S","E","N","D",":","O","P","E","N","T","A","B","L","E","]","]">>
TOK_TOAST         == <<"[","[","S","E","N","D",":","T","O","A","S","T","]","]">>

\* String.prototype.toUpperCase on the letters the keyword can be written in
ToUpper(c) ==
  CASE c = "m" -> "M" [] c = "e" -> "E" [] c = "n" -> "N" [] c = "u" -> "U"
    [] c = "s" -> "S" [] c = "a" -> "A" [] c = "r" -> "R" [] c = "c" -> "C"
    [] c = "h" -> "H" [] OTHER -> c

\* p occurs in s at index i (exact, case-sensitive)
OccursAt(s, p, i) ==
  /\ i >= 1
  /\ i + Len(p) - 1 <= Len(s)
  /\ \A k \in 1..Len(p) : s[i + k - 1] = p[k]

\* String.prototype.indexOf, 1-based; 0 when absent
IndexOf(s, p) ==
  LET hits == {i \in 1..(Len(s) + 1) : OccursAt(s, p, i)}
  IN  IF hits = {} THEN 0 ELSE CHOOSE i \in hits : \A j \in hits : i <= j

\* String.prototype.includes
Includes(s, p) == IndexOf(s, p) # 0

\* s with the characters from..to cut out
Cut(s, from, to) == SubSeq(s, 1, from - 1) \o SubSeq(s, to + 1, Len(s))

\* String.prototype.replace(p, '') with a string pattern: first occurrence only
ReplaceFirst(s, p) ==
  LET i == IndexOf(s, p)
  IN  IF i = 0 THEN s ELSE Cut(s, i, i + Len(p) - 1)

\* String.prototype.trim
RECURSIVE TrimLeft(_)
TrimLeft(s) == IF s # <<>> /\ Head(s) \in WS THEN TrimLeft(Tail(s)) ELSE s
RECURSIVE TrimRight(_)
TrimRight(s) ==
  IF s # <<>> /\ s[Len(s)] \in WS THEN TrimRight(SubSeq(s, 1, Len(s) - 1)) ELSE s
Trim(s) == TrimRight(TrimLeft(s))

(***************************************************************************)
(* /\[\[MENU_SEARCH:\s*([^\]]+)\]\]/i                                      *)
(* A match at i: the keyword (any letter case), then a run of one or more  *)
(* characters other than "]" (the greedy \s* gives characters back to the  *)
(* group when the run is all white space), then "]]".                      *)
(***************************************************************************)
KeywordAt(s, i) ==
  /\ i >= 1
  /\ i + Len(KW_MENU_SEARCH) - 1 <= Len(s)
  /\ \A k \in 1..Len(KW_MENU_SEARCH) : ToUpper(s[i + k - 1]) = KW_MENU_SEARCH[k]

\* index of the first "]" at or after j; 0 when there is none
FirstClose(s, j) ==
  LET cs == {e \in j..Len(s) : s[e] = "]"}
  IN  IF cs = {} THEN 0 ELSE CHOOSE e \in cs : \A f \in cs : e <= f

MenuMatchAt(s, i) ==
  /\ KeywordAt(s, i)
  /\ LET j == i + Len(KW_MENU_SEARCH)
         e == FirstClose(s, j)
     IN  /\ e > j
         /\ e + 1 <= Len(s)
         /\ s[e + 1] = "]"

\* m.index (1-based) of textAccum.match(re); 0 for a null match
MenuMatchIndex(s) ==
  LET hits == {i \in 1..Len(s) : MenuMatchAt(s, i)}
  IN  IF hits = {} THEN 0 ELSE CHOOSE i \in hits : \A j \in hits : i <= j

\* m[0], the whole matched text
MenuMatchText(s) ==
  LET i == MenuMatchIndex(s)
      e == FirstClose(s, i + Len(KW_MENU_SEARCH))
  IN  SubSeq(s, i, e + 1)

\* m[1], the capture group: the run after the white space \s* keeps
MenuMatchGroup(s) ==
  LET i   == MenuMatchIndex(s)
      j   == i + Len(KW_MENU_SEARCH)
      e   == FirstClose(s, j)
      run == SubSeq(s, j, e - 1)
      t   == TrimLeft(run)
  IN  IF t = <<>> THEN <<run[Len(run)]>> ELSE t

(***************************************************************************)
(* Audio transcoder                                                        *)
(***************************************************************************)
CLIP == 32635

\* the loop of linearToUlaw: lower the exponent while the mask bit is clear
RECURSIVE ExponentOf(_, _, _)
ExponentOf(sample, exponent, expMask) ==
  IF (sample \div expMask) % 2 = 0 /\ exponent > 0
    THEN ExponentOf(sample, exponent - 1, expMask \div 2)
    ELSE exponent

Pow2(n) == CASE n = 3 -> 8 [] n = 4 -> 16 [] n = 5 -> 32 [] n = 6 -> 64
             [] n = 7 -> 128 [] n = 8 -> 256 [] n = 9 -> 512 [] n = 10 -> 1024

\* faulty variant: the magnitude is not clipped
linearToUlaw_NoClip(sample) ==
  LET sign     == IF ((sample \div 256) % 256) \div 128 = 1 THEN 128 ELSE 0
      mag      == IF sign # 0 THEN -sample ELSE sample
      exponent == ExponentOf(mag, 7, 16384)
      mantissa == (mag \div Pow2(exponent + 3)) % 16
  IN  255 - (sign + exponent * 16 + mantissa)

linearToUlaw(sample) ==
  LET sign     == IF ((sample \div 256) % 256) \div 128 = 1 THEN 128 ELSE 0
      mag      == IF sign # 0 THEN -sample ELSE sample
      clipped  == IF mag > CLIP THEN CLIP ELSE mag
      exponent == ExponentOf(clipped, 7, 16384)
      mantissa == (clipped \div Pow2(exponent + 3)) % 16
  IN  255 - (sign + exponent * 16 + mantissa)

\* the decoder of the first iteration of the file
exp_lut == <<0, 132, 396, 924, 1980, 4092, 8316, 16764>>

ulawToLinear(ulawByte) ==
  LET inv      == 255 - (ulawByte % 256)
      sign     == (inv \div 128) * 128
      exponent == (inv \div 16) % 8
      mantissa == inv % 16
      sample   == exp_lut[exponent + 1] + mantissa * Pow2(exponent + 3)
  IN  IF sign # 0 THEN -sample ELSE sample

\* keep every third sample of the 24 kHz buffer, encode each
pcm24kToUlaw8k(pcm) ==
  [i \in 1..(Len(pcm) \div 3) |-> linearToUlaw(pcm[3 * (i - 1) + 1])]


(***************************************************************************)
(* Environment: values the two peers and the telephony REST API can supply *)
(***************************************************************************)
Kinds == <<"MENU_DAY", "MENU_DINNER", "MENU_BEVERAGE", "OPENTABLE", "TOAST">>

\* start events: m.start.streamSid, m.start.callSid
Starts == { [streamSid |-> "MZ1", callSid |-> "CA1"],
            [streamSid |-> "MZ2", callSid |-> "CA2"] }
CallSids == {"CA1", "CA2"}

\* call.from of the telephony record of a call
CallerOf(sid) == IF sid = "CA1" THEN "+15550001" ELSE "+15550002"

\* decoded length of a media payload
MediaSizes == {700, 900}

\* PCM16 samples of an audio delta (three 24 kHz samples make one 8 kHz byte)
AudioDeltas == { <<0, 7, 7>>, <<-1000, 7, 7, 32767, 7, 7>> }

\* text deltas of the agent
TXT_RIB == <<"r","i","b">>
TOK_SEARCH_RIB == KW_MENU_SEARCH \o <<" ">> \o TXT_RIB \o <<"]","]">>
MenuDeltas == { TOK_SEARCH_RIB }
Deltas == { TOK_MENU_DAY,
            TOK_MENU_DINNER \o TOK_TOAST,
            TOK_MENU_BEVERAGE \o TOK_OPENTABLE,
            TOK_SEARCH_RIB }

\* the menu links the environment sets (DAY_MENU_LINK, DINNER_MENU_LINK,
\* BEVERAGE_MENU_LINK are '' when unset)
AllMenuLinks == {"MENU_DAY", "MENU_DINNER", "MENU_BEVERAGE"}

\* the 200 ms, 440 Hz start tone of sendBeep, a fixed payload: its first bytes
BEEP == <<255, 189, 174, 168>>

(***************************************************************************)
(* State                                                                   *)
(***************************************************************************)
VARIABLES
  streamSid, callSid,            \* set by the start event; NULL before
  textAccum,                     \* text of the agent so far, tokens removed
  sentDay, sentDinner, sentBev,  \* the dispatched flags
  bytesSinceCommit,
  pendingToTwilio,               \* frames waiting for the telephony leg
  twilioReady, oaReady, greetingSent, activeResponse,
  twilioState, oaState,          \* readyState of twilioWS and of oaWS
  callFromCache,                 \* callSid -> from, NULL when absent
  tasks,                         \* agent-message handlers suspended at an await
  links,                         \* which menu links the environment configures
  oaOut,                         \* messages sent on the agent leg, in order
  twilioOut,                     \* frames sent on the telephony leg, in order
  audioIn,                       \* audio deltas received from the agent, in order
  smsLog,                        \* calls of sendSMS, in order
  searchLog,                     \* calls of searchMenuLines, in order
  fetches,                       \* calls of twilioClient.calls(sid).fetch()
  nText, nStart, nMedia,         \* inputs handled so far (bounded)
  nDropped,                      \* media events received while oaWS was not open
  errLog,                        \* agent messages of type error: how many
                                 \* inputs had been handled before each
  badLog,                        \* unparseable messages received: the leg, and
                                 \* how many inputs had been handled before
  codec,                         \* SpecCodec: a value and its conversions
  stopped,                       \* a stop event has been handled
  script,                        \* SpecScan: the text the agent streams
  agentText                      \* SpecScan: the part of it still to come

\* everything but codec
bridgeVars ==
  << streamSid, callSid, textAccum, sentDay, sentDinner, sentBev,
     bytesSinceCommit, pendingToTwilio, twilioReady, oaReady,
     greetingSent, activeResponse, twilioState, oaState, callFromCache,
     tasks, links, oaOut, twilioOut, audioIn, smsLog, searchLog, fetches,
     nText, nStart, nMedia, nDropped, errLog, badLog, stopped, script,
     agentText >>

vars == << streamSid, callSid, textAccum, sentDay, sentDinner, sentBev,
           bytesSinceCommit, pendingToTwilio, twilioReady, oaReady,
           greetingSent, activeResponse, twilioState, oaState, callFromCache,
           tasks, links, oaOut, twilioOut, audioIn, smsLog, searchLog, fetches,
           nText, nStart, nMedia, nDropped, errLog, badLog, codec, stopped,
           script, agentText >>

\* the session as one record, so that a handler is a function on it
Cur ==
  [ streamSid |-> streamSid, callSid |-> callSid, textAccum |-> textAccum,
    sentDay |-> sentDay, sentDinner |-> sentDinner, sentBev |-> sentBev,
    bytesSinceCommit |-> bytesSinceCommit, pendingToTwilio |-> pendingToTwilio,
    twilioReady |-> twilioReady, oaReady |-> oaReady,
    greetingSent |-> greetingSent, activeResponse |-> activeResponse,
    twilioState |-> twilioState, oaState |-> oaState,
    callFromCache |-> callFromCache, tasks |-> tasks, links |-> links,
    oaOut |-> oaOut, twilioOut |-> twilioOut, audioIn |-> audioIn,
    smsLog |-> smsLog, searchLog |-> searchLog, fetches |-> fetches,
    nText |-> nText, nStart |-> nStart, nMedia |-> nMedia, badLog |-> badLog,
    nDropped |-> nDropped, errLog |-> errLog,
    stopped |-> stopped, script |-> script, agentText |-> agentText ]

Becomes(st) ==
  /\ streamSid' = st.streamSid /\ callSid' = st.callSid
  /\ textAccum' = st.textAccum
  /\ sentDay' = st.sentDay /\ sentDinner' = st.sentDinner /\ sentBev' = st.sentBev
  /\ bytesSinceCommit' = st.bytesSinceCommit
  /\ pendingToTwilio' = st.pendingToTwilio
  /\ twilioReady' = st.twilioReady /\ oaReady' = st.oaReady
  /\ greetingSent' = st.greetingSent /\ activeResponse' = st.activeResponse
  /\ twilioState' = st.twilioState /\ oaState' = st.oaState
  /\ callFromCache' = st.callFromCache /\ tasks' = st.tasks /\ links' = st.links
  /\ oaOut' = st.oaOut /\ twilioOut' = st.twilioOut /\ audioIn' = st.audioIn
  /\ smsLog' = st.smsLog /\ searchLog' = st.searchLog /\ fetches' = st.fetches
  /\ nText' = st.nText /\ nStart' = st.nStart /\ nMedia' = st.nMedia
  /\ nDropped' = st.nDropped /\ errLog' = st.errLog
  /\ badLog' = st.badLog /\ codec' = codec
  /\ stopped' = st.stopped /\ script' = st.script /\ agentText' = st.agentText

InitSession ==
  /\ streamSid = NULL /\ callSid = NULL
  /\ textAccum = <<>>
  /\ sentDay = FALSE /\ sentDinner = FALSE /\ sentBev = FALSE
  /\ bytesSinceCommit = 0
  /\ pendingToTwilio = <<>>
  /\ twilioReady = FALSE /\ oaReady = FALSE
  /\ greetingSent = FALSE /\ activeResponse = FALSE
  /\ twilioState = "OPEN" /\ oaState = "CONNECTING"
  /\ callFromCache = [c \in CallSids |-> NULL]
  /\ tasks = <<>>
  /\ links = AllMenuLinks
  /\ oaOut = <<>> /\ twilioOut = <<>> /\ audioIn = <<>>
  /\ smsLog = <<>> /\ searchLog = <<>> /\ fetches = 0
  /\ nText = 0 /\ nStart = 0 /\ nMedia = 0
  /\ nDropped = 0 /\ errLog = <<>>
  /\ badLog = <<>>
  /\ stopped = FALSE

NoScript == [pre |-> <<>>, tok |-> <<>>, q |-> <<>>, post |-> <<>>]

Init == InitSession /\ script = NoScript /\ agentText = <<>> /\ codec = <<>>

\* inputs handled so far
Inputs ==
  nText + nStart + nMedia + nDropped + Len(audioIn) + Len(errLog) + Len(badLog)

(***************************************************************************)
(* The sockets (ws): send() transmits on an OPEN socket and is discarded   *)
(* once the socket is closing or closed; close() leaves OPEN or CONNECTING *)
(* for CLOSING and is a no-op afterwards.                                  *)
(***************************************************************************)
wsClose(readyState) ==
  IF readyState \in {"OPEN", "CONNECTING"} THEN "CLOSING" ELSE readyState

Msg(type, arg) == [type |-> type, arg |-> arg]

oaSend(st, m) ==
  IF st.oaState = "OPEN" THEN [st EXCEPT !.oaOut = Append(@, m)] ELSE st

\* `by` names the function that sent the frame (it is not on the wire)
twilioSend(st, payload, by) ==
  IF st.twilioState = "OPEN"
    THEN [st EXCEPT !.twilioOut =
            Append(@, [event |-> "media", streamSid |-> st.streamSid,
                       payload |-> payload, by |-> by])]
    ELSE st

GREETING == <<"greeting">>

\* faulty variant: the greeting is requested while a turn is active
maybeStartGreeting_NoTurnGuard(st) ==
  IF st.twilioReady /\ st.oaReady /\ ~st.greetingSent
    THEN oaSend([st EXCEPT !.greetingSent = TRUE, !.activeResponse = TRUE],
                Msg("response.create", GREETING))
    ELSE st

\* faulty variant: the greetingSent flag is not consulted
maybeStartGreeting_NoOnceFlag(st) ==
  IF st.twilioReady /\ st.oaReady /\ ~st.activeResponse
    THEN oaSend([st EXCEPT !.greetingSent = TRUE, !.activeResponse = TRUE],
                Msg("response.create", GREETING))
    ELSE st

maybeStartGreeting(st) ==
  IF st.twilioReady /\ st.oaReady /\ ~st.greetingSent /\ ~st.activeResponse
    THEN oaSend([st EXCEPT !.greetingSent = TRUE, !.activeResponse = TRUE],
                Msg("response.create", GREETING))
    ELSE st

\* faulty variant: the queue is emptied from its end (pop instead of shift)
RECURSIVE flushToTwilio_Lifo(_)
flushToTwilio_Lifo(st) ==
  IF st.streamSid = NULL THEN st
  ELSE IF st.twilioState # "OPEN" THEN st
  ELSE IF st.pendingToTwilio = <<>> THEN st
  ELSE flushToTwilio_Lifo(
         twilioSend([st EXCEPT !.pendingToTwilio = SubSeq(@, 1, Len(@) - 1)],
                    st.pendingToTwilio[Len(st.pendingToTwilio)], "flushToTwilio"))

\* faulty variant: the queue is flushed without waiting for streamSid
RECURSIVE flushToTwilio_NoSidCheck(_)
flushToTwilio_NoSidCheck(st) ==
  IF st.twilioState # "OPEN" THEN st
  ELSE IF st.pendingToTwilio = <<>> THEN st
  ELSE flushToTwilio_NoSidCheck(
         twilioSend([st EXCEPT !.pendingToTwilio = Tail(@)],
                    Head(st.pendingToTwilio), "flushToTwilio"))

RECURSIVE flushToTwilio(_)
flushToTwilio(st) ==
  IF st.streamSid = NULL THEN st
  ELSE IF st.twilioState # "OPEN" THEN st
  ELSE IF st.pendingToTwilio = <<>> THEN st
  ELSE flushToTwilio(twilioSend([st EXCEPT !.pendingToTwilio = Tail(@)],
                                Head(st.pendingToTwilio), "flushToTwilio"))

sendBeep(st) ==
  IF st.streamSid = NULL \/ st.twilioState # "OPEN" THEN st
  ELSE twilioSend(st, BEEP, "sendBeep")

(***************************************************************************)
(* Menu lookup.  MENU_LINES is the text ingested at boot; a spoken answer  *)
(* is represented by its parts: the query, or the rows it lists.           *)
(***************************************************************************)
MENU_LINES ==
  << [source |-> "Day",    text |-> <<"e","g","g","s"," ","$","9">>],
     [source |-> "Dinner", text |-> <<"r","i","b","e","y","e"," ","$","3","8">>],
     [source |-> "Dinner", text |-> <<"r","i","b","s">>] >>

Digits == {"0","1","2","3","4","5","6","7","8","9"}

ToLower(c) ==
  CASE c = "R" -> "r" [] c = "I" -> "i" [] c = "B" -> "b" [] c = "E" -> "e"
    [] c = "G" -> "g" [] c = "S" -> "s" [] c = "Y" -> "y" [] OTHER -> c

LowerCase(s) == [i \in 1..Len(s) |-> ToLower(s[i])]

\* q.split(/\s+/).filter(Boolean)
RECURSIVE SplitWords(_, _)
SplitWords(s, word) ==
  IF s = <<>> THEN (IF word = <<>> THEN <<>> ELSE <<word>>)
  ELSE IF Head(s) \in WS
    THEN (IF word = <<>> THEN <<>> ELSE <<word>>) \o SplitWords(Tail(s), <<>>)
    ELSE SplitWords(Tail(s), Append(word, Head(s)))

\* /\$\s?\d/.test(text)
HasPrice(t) ==
  \E i \in 1..Len(t) :
    /\ t[i] = "$"
    /\ \/ (i + 1 <= Len(t) /\ t[i + 1] \in Digits)
       \/ (i + 2 <= Len(t) /\ t[i + 1] \in WS /\ t[i + 2] \in Digits)

LineScore(r, q) ==
  LET hay    == LowerCase(r.text)
      tokens == SplitWords(q, <<>>)
  IN  (IF Includes(hay, q) THEN 3 ELSE 0)
      + Cardinality({k \in 1..Len(tokens) : Includes(hay, tokens[k])})
      + (IF HasPrice(r.text) THEN 1 ELSE 0)

\* the rows of score sc in MENU_LINES order, then those of the lower scores
RECURSIVE RowsFrom(_, _)
RowsFrom(q, sc) ==
  IF sc = 0 THEN <<>>
  ELSE SelectSeq(MENU_LINES, LAMBDA r : LineScore(r, q) = sc) \o RowsFrom(q, sc - 1)

\* drop a row whose text was seen before
RECURSIVE Dedupe(_, _)
Dedupe(rows, seen) ==
  IF rows = <<>> THEN <<>>
  ELSE IF Head(rows).text \in seen THEN Dedupe(Tail(rows), seen)
  ELSE <<Head(rows)>> \o Dedupe(Tail(rows), seen \cup {Head(rows).text})

searchMenuLines(query, limit) ==
  LET q    == LowerCase(query)
      rows == Dedupe(RowsFrom(q, 4 + Len(q)), {})
  IN  SubSeq(rows, 1, IF Len(rows) < limit THEN Len(rows) ELSE limit)

formatMenuAnswer(q, rows) ==
  IF rows = <<>> THEN <<"not found", q>>
  ELSE <<"found", SubSeq(rows, 1, IF Len(rows) < 5 THEN Len(rows) ELSE 5)>>

(***************************************************************************)
(* oaWS.on('message'), response.text.delta: the MENU_SEARCH block          *)
(***************************************************************************)
\* faulty variant: the matched token is left in the accumulator
scanMenuSearch_NoStrip(st) ==
  IF MenuMatchIndex(st.textAccum) = 0 THEN st
  ELSE
    LET q      == Trim(MenuMatchGroup(st.textAccum))
        rows   == searchMenuLines(q, 8)
        spoken == formatMenuAnswer(q, rows)
        st1    == [st EXCEPT !.searchLog = Append(@, q)]
    IN  IF ~st1.activeResponse
          THEN oaSend([st1 EXCEPT !.activeResponse = TRUE],
                      Msg("response.create", spoken))
          ELSE st1

\* faulty variant: the answer is requested whether or not a turn is active
scanMenuSearch_NoTurnGuard(st) ==
  IF MenuMatchIndex(st.textAccum) = 0 THEN st
  ELSE
    LET q      == Trim(MenuMatchGroup(st.textAccum))
        rows   == searchMenuLines(q, 8)
        spoken == formatMenuAnswer(q, rows)
        st1    == [st EXCEPT !.textAccum = ReplaceFirst(@, MenuMatchText(@)),
                             !.searchLog = Append(@, q)]
    IN  oaSend([st1 EXCEPT !.activeResponse = TRUE], Msg("response.create", spoken))

scanMenuSearch(st) ==
  IF MenuMatchIndex(st.textAccum) = 0 THEN st
  ELSE
    LET q      == Trim(MenuMatchGroup(st.textAccum))
        rows   == searchMenuLines(q, 8)
        spoken == formatMenuAnswer(q, rows)
        st1    == [st EXCEPT !.textAccum = ReplaceFirst(@, MenuMatchText(@)),
                             !.searchLog = Append(@, q)]
    IN  IF ~st1.activeResponse
          THEN oaSend([st1 EXCEPT !.activeResponse = TRUE],
                      Msg("response.create", spoken))
          ELSE st1

(***************************************************************************)
(* The SEND blocks, in source order 1..5 (Kinds).  A block that dispatches *)
(* suspends the handler at `await getFromNumber`; the handler goes on with *)
(* the next block when `await sendSMS` returns, and ends in the catch when *)
(* either call throws.                                                     *)
(***************************************************************************)
Token(k) ==
  CASE k = 1 -> TOK_MENU_DAY [] k = 2 -> TOK_MENU_DINNER
    [] k = 3 -> TOK_MENU_BEVERAGE [] k = 4 -> TOK_OPENTABLE [] k = 5 -> TOK_TOAST

sendWanted(st, k) ==
  CASE k = 1 -> ~st.sentDay    /\ Kinds[1] \in st.links /\ Includes(st.textAccum, Token(1))
    [] k = 2 -> ~st.sentDinner /\ Kinds[2] \in st.links /\ Includes(st.textAccum, Token(2))
    [] k = 3 -> ~st.sentBev    /\ Kinds[3] \in st.links /\ Includes(st.textAccum, Token(3))
    [] k = 4 -> Includes(st.textAccum, Token(4))
    [] k = 5 -> Includes(st.textAccum, Token(5))

\* faulty variant: the token is stripped but the kind is not marked
markAndStrip_NoFlag(st, k) ==
  [st EXCEPT !.textAccum = ReplaceFirst(@, Token(k))]

markAndStrip(st, k) ==
  LET st1 == [st EXCEPT !.textAccum = ReplaceFirst(@, Token(k))]
  IN  CASE k = 1 -> [st1 EXCEPT !.sentDay = TRUE]
        [] k = 2 -> [st1 EXCEPT !.sentDinner = TRUE]
        [] k = 3 -> [st1 EXCEPT !.sentBev = TRUE]
        [] OTHER -> st1

\* audio messages handled so far, in both directions; a suspended handler
\* carries the number it was at when it started to wait (seen)
Relayed(st) == Len(st.audioIn) + st.nMedia

\* getFromNumber up to its first await: a cache hit returns at once, a miss
\* starts the fetch of the call record
getFromNumber(st, k) ==
  LET sid == st.callSid
  IN  IF st.callFromCache[sid] # NULL
        THEN [st EXCEPT !.tasks = Append(@, [kind |-> k, phase |-> "lookup",
                                             sid |-> sid, to |-> st.callFromCache[sid],
                                             seen |-> Relayed(st)])]
        ELSE [st EXCEPT !.fetches = @ + 1,
                        !.tasks = Append(@, [kind |-> k, phase |-> "fetch",
                                             sid |-> sid, to |-> NULL,
                                             seen |-> Relayed(st)])]

RECURSIVE runSends(_, _)
runSends(st, k) ==
  IF k > 5 THEN st
  ELSE IF sendWanted(st, k)
    THEN LET st1 == markAndStrip(st, k)
         IN  IF st1.callSid # NULL THEN getFromNumber(st1, k)
             ELSE runSends(st1, k + 1)
    ELSE runSends(st, k + 1)

sendSMS(st, to, k) ==
  [st EXCEPT !.smsLog = Append(@, [to |-> to, kind |-> Kinds[k]])]

onTextDelta(st, delta) ==
  runSends(scanMenuSearch([st EXCEPT !.textAccum = @ \o delta, !.nText = @ + 1]), 1)

onAudioDelta(st, pcm) ==
  LET mu == pcm24kToUlaw8k(pcm)
  IN  flushToTwilio([st EXCEPT !.pendingToTwilio = Append(@, mu),
                               !.audioIn = Append(@, pcm)])

(***************************************************************************)
(* Handlers of the two sockets                                             *)
(***************************************************************************)
COMMIT_BYTES == 1600

\* faulty variant: the greeting is tried before the session is configured
onOaOpen_GreetsFirst(st) ==
  oaSend(maybeStartGreeting([st EXCEPT !.oaReady = TRUE]), Msg("session.update", <<>>))

onOaOpen(st) ==
  maybeStartGreeting(oaSend([st EXCEPT !.oaReady = TRUE], Msg("session.update", <<>>)))

\* faulty variant: the close of the agent leg is not passed on
onOaClose_NoPropagation(st) == st

onOaClose(st) == [st EXCEPT !.twilioState = wsClose(@)]

onTwilioClose(st) == [st EXCEPT !.oaState = wsClose(@)]

onStart(st, m) ==
  maybeStartGreeting(sendBeep([st EXCEPT !.streamSid = m.streamSid,
                                         !.callSid = m.callSid,
                                         !.twilioReady = TRUE,
                                         !.bytesSinceCommit = 0,
                                         !.nStart = @ + 1]))

\* faulty variant: the bytes are counted whether or not oaWS is open
onMedia_CountsWhenNotOpen(st, n) ==
  LET st1 == IF st.oaState = "OPEN"
               THEN oaSend(st, Msg("input_audio_buffer.append", <<n>>))
               ELSE [st EXCEPT !.nDropped = @ + 1]
      st2 == [st1 EXCEPT !.bytesSinceCommit = @ + n,
                         !.nMedia = IF st.oaState = "OPEN" THEN @ + 1 ELSE @]
  IN  IF st2.bytesSinceCommit >= COMMIT_BYTES
        THEN [oaSend(st2, Msg("input_audio_buffer.commit", <<>>))
                EXCEPT !.bytesSinceCommit = 0]
        ELSE st2

\* faulty variant: media waits for the suspended handlers of the agent leg
onMedia_WaitsForTasks(st, n) ==
  IF st.oaState = "OPEN"
    THEN IF st.tasks # <<>> THEN [st EXCEPT !.nMedia = @ + 1]
         ELSE LET st1 == oaSend(st, Msg("input_audio_buffer.append", <<n>>))
                  st2 == [st1 EXCEPT !.bytesSinceCommit = @ + n, !.nMedia = @ + 1]
              IN  IF st2.bytesSinceCommit >= COMMIT_BYTES
                    THEN [oaSend(st2, Msg("input_audio_buffer.commit", <<>>))
                            EXCEPT !.bytesSinceCommit = 0]
                    ELSE st2
    ELSE [st EXCEPT !.nDropped = @ + 1]

\* faulty variant: the threshold test is > instead of >=
onMedia_StrictGreater(st, n) ==
  IF st.oaState = "OPEN"
    THEN LET st1 == oaSend(st, Msg("input_audio_buffer.append", <<n>>))
             st2 == [st1 EXCEPT !.bytesSinceCommit = @ + n, !.nMedia = @ + 1]
         IN  IF st2.bytesSinceCommit > COMMIT_BYTES
               THEN [oaSend(st2, Msg("input_audio_buffer.commit", <<>>))
                       EXCEPT !.bytesSinceCommit = 0]
               ELSE st2
    ELSE [st EXCEPT !.nDropped = @ + 1]

onMedia(st, n) ==
  IF st.oaState = "OPEN"
    THEN LET st1 == oaSend(st, Msg("input_audio_buffer.append", <<n>>))
             st2 == [st1 EXCEPT !.bytesSinceCommit = @ + n, !.nMedia = @ + 1]
         IN  IF st2.bytesSinceCommit >= COMMIT_BYTES
               THEN [oaSend(st2, Msg("input_audio_buffer.commit", <<>>))
                       EXCEPT !.bytesSinceCommit = 0]
               ELSE st2
    ELSE [st EXCEPT !.nDropped = @ + 1]

\* faulty variant: only the agent socket is closed
onStop_OnlyAgent(st) == [st EXCEPT !.oaState = wsClose(@), !.stopped = TRUE]

onStop(st) ==
  [st EXCEPT !.oaState = wsClose(@), !.twilioState = wsClose(@), !.stopped = TRUE]

(***************************************************************************)
(* The two 'message' handlers as a whole.  data is what arrived: parses    *)
(* says whether JSON.parse accepts it, the other fields are what the text  *)
(* holds.  When JSON.parse throws, the catch logs and the handler is over. *)
(***************************************************************************)
\* faulty variant: no try/catch around the parse, the text is acted on anyway
oaOnMessage_NoTry(st, data) ==
  LET st0 == IF data.parses THEN st
             ELSE [st EXCEPT !.badLog = Append(@, [leg |-> "oa", at |-> Inputs])]
  IN  CASE data.type = "response.created" -> [st0 EXCEPT !.activeResponse = TRUE]
        [] data.type = "response.done" -> [st0 EXCEPT !.activeResponse = FALSE]
        [] data.type = "error" -> [st0 EXCEPT !.errLog = Append(@, [at |-> Inputs])]
        [] data.type = "response.text.delta" /\ data.delta # <<>> ->
             onTextDelta(st0, data.delta)
        [] data.type = "response.audio.delta" /\ data.delta # <<>> ->
             onAudioDelta(st0, data.delta)
        [] OTHER -> st0

\* faulty variant: a message of type error ends the turn
oaOnMessage_ErrorEndsTurn(st, data) ==
  IF ~data.parses
    THEN [st EXCEPT !.badLog = Append(@, [leg |-> "oa", at |-> Inputs])]
    ELSE CASE data.type = "response.created" -> [st EXCEPT !.activeResponse = TRUE]
           [] data.type = "response.done" -> [st EXCEPT !.activeResponse = FALSE]
           [] data.type = "error" ->
                [st EXCEPT !.errLog = Append(@, [at |-> Inputs]),
                           !.activeResponse = FALSE]
           [] data.type = "response.text.delta" /\ data.delta # <<>> ->
                onTextDelta(st, data.delta)
           [] data.type = "response.audio.delta" /\ data.delta # <<>> ->
                onAudioDelta(st, data.delta)
           [] OTHER -> st

oaOnMessage(st, data) ==
  IF ~data.parses
    THEN [st EXCEPT !.badLog = Append(@, [leg |-> "oa", at |-> Inputs])]
    ELSE CASE data.type = "response.created" -> [st EXCEPT !.activeResponse = TRUE]
           [] data.type = "response.done" -> [st EXCEPT !.activeResponse = FALSE]
           [] data.type = "error" -> [st EXCEPT !.errLog = Append(@, [at |-> Inputs])]
           [] data.type = "response.text.delta" /\ data.delta # <<>> ->
                onTextDelta(st, data.delta)
           [] data.type = "response.audio.delta" /\ data.delta # <<>> ->
                onAudioDelta(st, data.delta)
           [] OTHER -> st

twilioOnMessage(st, data) ==
  IF ~data.parses
    THEN [st EXCEPT !.badLog = Append(@, [leg |-> "twilio", at |-> Inputs])]
    ELSE CASE data.event = "start" -> onStart(st, data.start)
           [] data.event = "media" /\ data.size > 0 -> onMedia(st, data.size)
           [] data.event = "stop" -> onStop(st)
           [] OTHER -> st

\* texts JSON.parse rejects (cut short), by what they would have said
OaGarbled ==
  { [parses |-> FALSE, type |-> "response.created", delta |-> <<>>],
    [parses |-> FALSE, type |-> "response.text.delta", delta |-> TOK_SEARCH_RIB],
    [parses |-> FALSE, type |-> "response.audio.delta", delta |-> <<0, 7, 7>>] }

TwilioGarbled ==
  { [parses |-> FALSE, event |-> "start", size |-> 0,
     start |-> [streamSid |-> "MZ2", callSid |-> "CA2"]],
    [parses |-> FALSE, event |-> "media", size |-> 900,
     start |-> [streamSid |-> NULL, callSid |-> NULL]],
    [parses |-> FALSE, event |-> "stop", size |-> 0,
     start |-> [streamSid |-> NULL, callSid |-> NULL]] }

(***************************************************************************)
(* Actions: socket events                                                  *)
(***************************************************************************)
OaOpen ==
  /\ oaState = "CONNECTING"
  /\ Becomes(onOaOpen([Cur EXCEPT !.oaState = "OPEN"]))

\* 'error' on oaWS: the handler logs; ws fails the connection
OaError ==
  /\ oaState \in {"CONNECTING", "OPEN", "CLOSING"}
  /\ Becomes([Cur EXCEPT !.oaState = "CLOSING"])

OaClose ==
  /\ oaState \in {"OPEN", "CLOSING"}
  /\ Becomes(onOaClose([Cur EXCEPT !.oaState = "CLOSED"]))

TwilioError ==
  /\ twilioState \in {"OPEN", "CLOSING"}
  /\ Becomes([Cur EXCEPT !.twilioState = "CLOSING"])

TwilioClose ==
  /\ twilioState \in {"OPEN", "CLOSING"}
  /\ Becomes(onTwilioClose([Cur EXCEPT !.twilioState = "CLOSED"]))

\* a message can be delivered until the close handshake is over
OaReceiving == oaReady /\ oaState \in {"OPEN", "CLOSING"}
TwilioReceiving == twilioState \in {"OPEN", "CLOSING"}

(***************************************************************************)
(* Actions: messages of the agent leg                                      *)
(***************************************************************************)
OaResponseCreated ==
  /\ OaReceiving
  /\ Becomes([Cur EXCEPT !.activeResponse = TRUE])

OaResponseDone ==
  /\ OaReceiving
  /\ Becomes([Cur EXCEPT !.activeResponse = FALSE])

\* type 'error': logged
OaErrorMsg ==
  /\ OaReceiving
  /\ Inputs < MaxInputs
  /\ Becomes(oaOnMessage(Cur, [parses |-> TRUE, type |-> "error", delta |-> <<>>]))

\* JSON.parse throws: logged in the catch
OaUnparseable ==
  /\ OaReceiving
  /\ Inputs < MaxInputs
  /\ \E data \in OaGarbled : Becomes(oaOnMessage(Cur, data))

OaTextDeltaOf(D) ==
  /\ OaReceiving
  /\ Inputs < MaxInputs
  /\ Len(tasks) < MaxTasks
  /\ \E delta \in D : Becomes(onTextDelta(Cur, delta))

OaTextDelta == OaTextDeltaOf(Deltas)

\* the agent's text holds menu questions only
OaMenuDelta == OaTextDeltaOf(MenuDeltas)

OaAudioDelta ==
  /\ OaReceiving
  /\ Inputs < MaxInputs
  /\ \E pcm \in AudioDeltas : Becomes(onAudioDelta(Cur, pcm))

(***************************************************************************)
(* Actions: a suspended agent-message handler goes on                      *)
(***************************************************************************)
Without(seq, i) == SubSeq(seq, 1, i - 1) \o SubSeq(seq, i + 1, Len(seq))

\* getFromNumber returned from the cache: sendSMS is called and awaited
TaskLookupReturns ==
  \E i \in 1..Len(tasks) :
    /\ tasks[i].phase = "lookup"
    /\ Becomes(sendSMS([Cur EXCEPT !.tasks[i].phase = "deliver"],
                       tasks[i].to, tasks[i].kind))

\* the fetch of the call record resolved: cache it, then sendSMS
TaskFetchResolves ==
  \E i \in 1..Len(tasks) :
    /\ tasks[i].phase = "fetch"
    /\ LET from == CallerOf(tasks[i].sid)
       IN  Becomes(sendSMS([Cur EXCEPT !.callFromCache[tasks[i].sid] = from,
                                       !.tasks[i].phase = "deliver",
                                       !.tasks[i].to = from],
                           from, tasks[i].kind))

\* the fetch rejected: the handler ends in its catch
TaskFetchRejects ==
  \E i \in 1..Len(tasks) :
    /\ tasks[i].phase = "fetch"
    /\ Becomes([Cur EXCEPT !.tasks = Without(@, i)])

\* messages.create resolved: the handler goes on with the next SEND block
TaskDeliverResolves ==
  \E i \in 1..Len(tasks) :
    /\ tasks[i].phase = "deliver"
    /\ Becomes(runSends([Cur EXCEPT !.tasks = Without(@, i)], tasks[i].kind + 1))

\* messages.create rejected: the handler ends in its catch
TaskDeliverRejects ==
  \E i \in 1..Len(tasks) :
    /\ tasks[i].phase = "deliver"
    /\ Becomes([Cur EXCEPT !.tasks = Without(@, i)])

(***************************************************************************)
(* Actions: messages of the telephony leg                                  *)
(***************************************************************************)
\* the identifiers are opaque: the first start event is taken to carry the
\* first pair, a repeated one carries either pair
StartsNow ==
  IF nStart = 0 THEN {[streamSid |-> "MZ1", callSid |-> "CA1"]} ELSE Starts

TwilioStart ==
  /\ TwilioReceiving
  /\ Inputs < MaxInputs
  /\ \E m \in StartsNow : Becomes(onStart(Cur, m))

TwilioMedia ==
  /\ TwilioReceiving
  /\ Inputs < MaxInputs
  /\ \E n \in MediaSizes : Becomes(onMedia(Cur, n))

TwilioStop ==
  /\ TwilioReceiving
  /\ Becomes(onStop(Cur))

TwilioUnparseable ==
  /\ TwilioReceiving
  /\ Inputs < MaxInputs
  /\ \E data \in TwilioGarbled : Becomes(twilioOnMessage(Cur, data))

(***************************************************************************)
(* Specifications.  Spec is the whole bridge.  SpecRelay, SpecCommit and   *)
(* SpecText keep the socket events, start and stop, and let the peers send *)
(* one class of input only (agent audio, caller audio, agent text), so     *)
(* that each class can be explored to the full input bound.  SpecMenu lets *)
(* the agent send audio and menu questions.                                *)
(***************************************************************************)
Lifecycle == OaOpen \/ OaError \/ OaClose \/ TwilioError \/ TwilioClose

AgentControl == OaResponseCreated \/ OaResponseDone \/ OaErrorMsg \/ OaUnparseable

TelephonyControl == TwilioStart \/ TwilioStop \/ TwilioUnparseable

TaskSteps ==
  \/ TaskLookupReturns \/ TaskFetchResolves \/ TaskFetchRejects
  \/ TaskDeliverResolves \/ TaskDeliverRejects

Next ==
  \/ Lifecycle \/ AgentControl \/ TelephonyControl
  \/ OaTextDelta \/ OaAudioDelta \/ TwilioMedia
  \/ TaskSteps

Spec == Init /\ [][Next]_vars

NextRelay == Lifecycle \/ AgentControl \/ TelephonyControl \/ OaAudioDelta
SpecRelay == Init /\ [][NextRelay]_vars

\* ws ends a closing handshake (by the peer's close frame or its close timer)
\* and then emits 'close'
OaCloseCompletes == oaState = "CLOSING" /\ OaClose
TwilioCloseCompletes == twilioState = "CLOSING" /\ TwilioClose
FairRelay ==
  SpecRelay /\ WF_vars(OaCloseCompletes) /\ WF_vars(TwilioCloseCompletes)

\* the agent goes on taking turns for as long as its socket delivers: every
\* turn it has begun ends, and another begins
FairTurns ==
  FairRelay /\ WF_vars(OaResponseCreated) /\ WF_vars(OaResponseDone)

NextCommit == Lifecycle \/ TelephonyControl \/ TwilioMedia
SpecCommit == Init /\ [][NextCommit]_vars

NextMenu == Lifecycle \/ AgentControl \/ TelephonyControl \/ OaMenuDelta \/ OaAudioDelta
SpecMenu == Init /\ [][NextMenu]_vars

NextText == Lifecycle \/ AgentControl \/ TelephonyControl \/ OaTextDelta \/ TaskSteps
SpecText == Init /\ [][NextText]_vars

(***************************************************************************)
(* SpecScan: the agent streams one text that holds one MENU_SEARCH token,  *)
(* cut into fragments at any boundaries.                                   *)
(***************************************************************************)
Scripts ==
  { [pre  |-> <<"h","i"," ">>,
     tok  |-> KW_MENU_SEARCH \o <<" ","r","i","b","]","]">>,
     q    |-> <<"r","i","b">>,
     post |-> <<" ","o","k">>],
    [pre  |-> <<"a","[">>,
     tok  |-> <<"[","[","m","e","n","u","_","s","e","a","r","c","h",":",
                "r","i","b"," ","e","y","e"," ","]","]">>,
     q    |-> <<"r","i","b"," ","e","y","e">>,
     post |-> <<"]">>],
    [pre  |-> <<>>,
     tok  |-> KW_MENU_SEARCH \o <<"\n","[","x","]","]">>,
     q    |-> <<"[","x">>,
     post |-> <<"!">>] }

ScriptText(sc) == sc.pre \o sc.tok \o sc.post

InitScan ==
  InitSession /\ script \in Scripts /\ agentText = ScriptText(script) /\ codec = <<>>

\* the next fragment of the script arrives as one response.text.delta
OaTextFragment ==
  /\ OaReceiving
  /\ agentText # <<>>
  /\ \E n \in 1..Len(agentText) :
       Becomes([onTextDelta(Cur, SubSeq(agentText, 1, n))
                  EXCEPT !.agentText = SubSeq(agentText, n + 1, Len(agentText))])

NextScan ==
  \/ OaOpen \/ OaClose \/ TwilioClose
  \/ OaResponseCreated \/ OaResponseDone
  \/ OaTextFragment

SpecScan == InitScan /\ [][NextScan]_vars

(***************************************************************************)
(* SpecCase: as SpecScan, for texts whose one token is written in upper or *)
(* in lower case; kind is the SEND block the token belongs to, 0 for a     *)
(* MENU_SEARCH token.  The call may start at any moment, and the lookup    *)
(* and the delivery a SEND token starts may succeed or fail.               *)
(***************************************************************************)
CaseScripts ==
  { [pre  |-> <<"a">>, tok |-> TOK_MENU_DAY, kind |-> 1,
     q    |-> <<>>, post |-> <<"b">>],
    [pre  |-> <<"a">>,
     tok  |-> <<"[","[","s","e","n","d",":","m","e","n","u","_","d","a","y","]","]">>,
     kind |-> 1, q |-> <<>>, post |-> <<"b">>],
    [pre  |-> <<"a">>,
     tok  |-> <<"[","[","M","e","n","u","_","S","e","a","r","c","h",":",
                "r","i","b","]","]">>,
     kind |-> 0, q |-> <<"r","i","b">>, post |-> <<"b">>] }

InitCase ==
  InitSession /\ script \in CaseScripts /\ agentText = ScriptText(script)
  /\ codec = <<>>

NextCase ==
  \/ NextScan
  \/ TwilioStart
  \/ TaskFetchResolves \/ TaskFetchRejects
  \/ TaskDeliverResolves \/ TaskDeliverRejects

SpecCase == InitCase /\ [][NextCase]_vars

(***************************************************************************)
(* SpecTwin: the agent's text deltas are either two MENU_SEARCH tokens in  *)
(* one delta or plain text.                                                *)
(***************************************************************************)
TXT_EYE == <<"e","y","e">>
TOK_SEARCH_EYE == KW_MENU_SEARCH \o <<" ">> \o TXT_EYE \o <<"]","]">>
TwinDeltas == { TOK_SEARCH_RIB \o TOK_SEARCH_EYE, <<"o","k">> }

OaTwinDelta == OaTextDeltaOf(TwinDeltas)

NextTwin == Lifecycle \/ AgentControl \/ TelephonyControl \/ OaTwinDelta
SpecTwin == Init /\ [][NextTwin]_vars

(***************************************************************************)
(* SpecCodec: the two conversions applied in turn to a value, which is any *)
(* 16-bit sample or any byte.  codec holds the value and what each         *)
(* conversion made of it, in order.                                        *)
(***************************************************************************)
MaxConversions == 3

Samples == -32768..32767
Bytes == 0..255

InitCodec ==
  /\ InitSession /\ script = NoScript /\ agentText = <<>>
  /\ \/ \E s \in Samples : codec = << [kind |-> "sample", val |-> s] >>
     \/ \E b \in Bytes : codec = << [kind |-> "byte", val |-> b] >>

Encode ==
  /\ Len(codec) <= MaxConversions
  /\ codec[Len(codec)].kind = "sample"
  /\ codec' = Append(codec, [kind |-> "byte",
                             val |-> linearToUlaw(codec[Len(codec)].val)])
  /\ UNCHANGED bridgeVars

Decode ==
  /\ Len(codec) <= MaxConversions
  /\ codec[Len(codec)].kind = "byte"
  /\ codec' = Append(codec, [kind |-> "sample",
                             val |-> ulawToLinear(codec[Len(codec)].val)])
  /\ UNCHANGED bridgeVars

NextCodec == Encode \/ Decode

SpecCodec == InitCodec /\ [][NextCodec]_vars

(***************************************************************************)
(* Observations used by the properties                                     *)
(***************************************************************************)
IsPrefix(a, b) == Len(a) <= Len(b) /\ SubSeq(b, 1, Len(a)) = a

\* the greeting turn requests sent on the agent leg
GreetingCount ==
  Cardinality({i \in 1..Len(oaOut) :
                 oaOut[i].type = "response.create" /\ oaOut[i].arg = GREETING})

\* payloads of the frames flushToTwilio sent, in order
AudioSent ==
  LET fr == SelectSeq(twilioOut, LAMBDA f : f.by = "flushToTwilio")
  IN  [i \in 1..Len(fr) |-> fr[i].payload]

\* the frames the audio deltas received so far convert to, in order
AudioReceived == [i \in 1..Len(audioIn) |-> pcm24kToUlaw8k(audioIn[i])]

SmsCount(kind) == Cardinality({i \in 1..Len(smsLog) : smsLog[i].kind = kind})

(***************************************************************************)
(* C1: the greeting turn request is sent at most once per session, and     *)
(* only when both twilioReady and oaReady are true, whatever the order of  *)
(* the agent leg opening, the start event and the agent's messages.        *)
(***************************************************************************)
C1_GreetingAtMostOnce ==
  /\ GreetingCount <= 1
  /\ GreetingCount = 1 => twilioReady /\ oaReady /\ greetingSent
  /\ greetingSent => twilioReady /\ oaReady

\* the greeting went out after agent text had already arrived
C1_Witness == GreetingCount = 1 /\ nText > 0 /\ nStart > 1

(***************************************************************************)
(* C5: the audio frames sent to the telephony leg are a prefix of the      *)
(* frames the received audio deltas convert to, in the same order; what    *)
(* is not yet sent is still queued, in order (nothing lost or repeated).   *)
(***************************************************************************)
C5_AudioInOrder ==
  /\ IsPrefix(AudioSent, AudioReceived)
  /\ AudioSent \o pendingToTwilio = AudioReceived

\* two different frames went out, the first of them sent from the queue
C5_Witness ==
  /\ Len(AudioSent) = 2
  /\ AudioSent[1] # AudioSent[2]
  /\ Len(twilioOut) = 3
  /\ twilioOut[1].by = "sendBeep"

(***************************************************************************)
(* C6: a frame is sent on the telephony leg only once the start event has  *)
(* set streamSid and while the telephony socket is open; before start the  *)
(* agent's audio is held in the queue and nothing is sent.                 *)
(***************************************************************************)
C6_SendOnlyStartedAndOpen ==
  /\ [](\A i \in 1..Len(twilioOut) : twilioOut[i].streamSid # NULL)
  /\ [](streamSid = NULL => twilioOut = <<>> /\ pendingToTwilio = AudioReceived)
  /\ [][twilioOut' # twilioOut => twilioState = "OPEN" /\ twilioState' = "OPEN"
                                  /\ streamSid' # NULL]_vars

\* the beep and a queued audio frame have both been sent
C6_Witness ==
  /\ \E i \in 1..Len(twilioOut) : twilioOut[i].by = "sendBeep"
  /\ \E i \in 1..Len(twilioOut) : twilioOut[i].by = "flushToTwilio"

(***************************************************************************)
(* C7: the stop handler closes both sockets, and from then on no frame is  *)
(* sent on the telephony leg, whatever is queued or arrives later.         *)
(***************************************************************************)
C7_StopClosesBoth ==
  /\ [](stopped => oaState \in {"CLOSING", "CLOSED"}
                   /\ twilioState \in {"CLOSING", "CLOSED"})
  /\ [][stopped' => twilioOut' = twilioOut]_vars

\* after stop, with the stream started, audio is in the queue
C7_Witness ==
  stopped /\ streamSid # NULL /\ pendingToTwilio # <<>> /\ twilioOut # <<>>

(***************************************************************************)
(* C9: streamSid and callSid are set once, by the start event, and never   *)
(* change afterwards, also when a start event is repeated.                 *)
(***************************************************************************)
C9_SidsSetOnce ==
  [][streamSid # NULL => streamSid' = streamSid /\ callSid' = callSid]_vars

(***************************************************************************)
(* C2: sendSMS is invoked at most once per link kind during a call,        *)
(* however often the token of that kind appears in the agent's text.       *)
(***************************************************************************)
C2_SmsAtMostOncePerKind == \A k \in 1..Len(Kinds) : SmsCount(Kinds[k]) <= 1

(***************************************************************************)
(* C3: a MENU_SEARCH token that arrives cut into fragments is extracted    *)
(* exactly once, on the fragment that completes "]]" and not before; after *)
(* that pass the accumulator is the streamed text without the token.       *)
(***************************************************************************)
Streamed ==
  SubSeq(ScriptText(script), 1, Len(ScriptText(script)) - Len(agentText))

TokStart == Len(script.pre) + 1
TokEnd == Len(script.pre) + Len(script.tok)

C3_SplitTokenExtractedOnce ==
  IF Len(Streamed) >= TokEnd
    THEN searchLog = <<script.q>> /\ textAccum = Cut(Streamed, TokStart, TokEnd)
    ELSE searchLog = <<>> /\ textAccum = Streamed

\* the whole text has arrived in four fragments or more, at most one of them
\* outside the token
C3_Witness ==
  /\ script.pre = <<>>
  /\ Len(script.post) = 1
  /\ agentText = <<>>
  /\ nText >= 4
  /\ searchLog = <<script.q>>

(***************************************************************************)
(* C4 (as claimed): for every complete MENU_SEARCH token in the text of a  *)
(* turn, the bridge searches the menu and sends the agent leg a turn       *)
(* request carrying the formatted answer.                                  *)
(***************************************************************************)
Last(seq) == seq[Len(seq)]
MenuAnswer(q) == Msg("response.create", formatMenuAnswer(q, searchMenuLines(q, 8)))

C4_EveryTokenAnswered ==
  [][(Len(searchLog') > Len(searchLog) /\ activeResponse /\ oaState = "OPEN")
       => oaOut' = Append(oaOut, MenuAnswer(Last(searchLog')))]_vars

(***************************************************************************)
(* C4 (amended): the token is searched when it completes; the turn request *)
(* with the formatted answer is sent only if activeResponse is false at    *)
(* that moment, and activeResponse is then true; while a turn is active    *)
(* nothing is sent for the token.                                          *)
(***************************************************************************)
C4_AnsweredUnlessTurnActive ==
  /\ [](Len(Streamed) >= TokEnd => searchLog = <<script.q>>)
  /\ [][Len(searchLog') > Len(searchLog) =>
          /\ activeResponse'
          /\ IF ~activeResponse /\ oaState = "OPEN"
               THEN oaOut' = Append(oaOut, MenuAnswer(Last(searchLog')))
               ELSE oaOut' = oaOut]_vars

\* an answer was requested for the script's query
C4_Witness ==
  /\ searchLog = <<script.q>>
  /\ oaOut # <<>>
  /\ Last(oaOut) = MenuAnswer(script.q)

(***************************************************************************)
(* C8: a media event forwarded to the agent leg is followed by a commit    *)
(* exactly when bytesSinceCommit plus its length reaches COMMIT_BYTES, by  *)
(* one commit, and the counter is then 0 (no overflow kept); a commit is   *)
(* sent in no other step; so 0 <= bytesSinceCommit < COMMIT_BYTES.  Until  *)
(* a start event zeroes it, the counter is the bytes appended since the    *)
(* last commit.                                                            *)
(***************************************************************************)
CommitCount(log) ==
  Cardinality({i \in 1..Len(log) : log[i].type = "input_audio_buffer.commit"})

RECURSIVE BytesAfterLastCommit(_)
BytesAfterLastCommit(log) ==
  IF log = <<>> THEN 0
  ELSE IF Last(log).type = "input_audio_buffer.commit" THEN 0
  ELSE IF Last(log).type = "input_audio_buffer.append"
    THEN Last(log).arg[1] + BytesAfterLastCommit(SubSeq(log, 1, Len(log) - 1))
  ELSE BytesAfterLastCommit(SubSeq(log, 1, Len(log) - 1))

C8_CommitAtThreshold ==
  /\ [](bytesSinceCommit >= 0 /\ bytesSinceCommit < COMMIT_BYTES)
  /\ [](bytesSinceCommit <= BytesAfterLastCommit(oaOut))
  /\ [](nStart = 0 => bytesSinceCommit = BytesAfterLastCommit(oaOut))
  /\ [][nMedia' # nMedia =>
          \E n \in MediaSizes :
            IF bytesSinceCommit + n >= COMMIT_BYTES
              THEN /\ oaOut' = oaOut \o << Msg("input_audio_buffer.append", <<n>>),
                                            Msg("input_audio_buffer.commit", <<>>) >>
                   /\ bytesSinceCommit' = 0
              ELSE /\ oaOut' = Append(oaOut, Msg("input_audio_buffer.append", <<n>>))
                   /\ bytesSinceCommit' = bytesSinceCommit + n]_vars
  /\ [][CommitCount(oaOut') # CommitCount(oaOut) => nMedia' # nMedia]_vars

\* two media events added up to exactly COMMIT_BYTES and one commit followed
C8_Witness ==
  /\ nMedia = 2
  /\ CommitCount(oaOut) = 1
  /\ bytesSinceCommit = 0
  /\ \E i \in 1..Len(oaOut) : oaOut[i] = Msg("input_audio_buffer.append", <<700>>)
  /\ \E i \in 1..Len(oaOut) : oaOut[i] = Msg("input_audio_buffer.append", <<900>>)

(***************************************************************************)
(* C10: the 'close' handler of either socket closes the other one, and     *)
(* once one leg is closed the other leg is closed in the end.              *)
(***************************************************************************)
C10_CloseReachesBothLegs ==
  /\ [][(oaState # "CLOSED" /\ oaState' = "CLOSED")
          => twilioState' \in {"CLOSING", "CLOSED"}]_vars
  /\ [][(twilioState # "CLOSED" /\ twilioState' = "CLOSED")
          => oaState' \in {"CLOSING", "CLOSED"}]_vars
  /\ (oaState = "CLOSED") ~> (twilioState = "CLOSED")
  /\ (twilioState = "CLOSED") ~> (oaState = "CLOSED")

\* both legs closed without a stop event, frames having been relayed
C10_Witness ==
  oaState = "CLOSED" /\ twilioState = "CLOSED" /\ ~stopped /\ AudioSent # <<>>

(***************************************************************************)
(* C11: an 'error' event on either socket is fatal to the session: the     *)
(* handling of the error event closes the other leg (the other socket is   *)
(* no longer open or connecting once the error has been handled).          *)
(* The handlers at lines 624 and 745 only log, so this fails.              *)
(***************************************************************************)
C11_ErrorClosesOtherLeg ==
  [][ /\ (OaError /\ oaState # "CLOSING"
            => twilioState' \notin {"OPEN", "CONNECTING"})
      /\ (TwilioError /\ twilioState # "CLOSING"
            => oaState' \notin {"OPEN", "CONNECTING"}) ]_vars

(***************************************************************************)
(* C12: an unparseable message on either leg is dropped: the step that     *)
(* receives it sends nothing on either leg, dispatches no side effect,     *)
(* closes no socket and changes no session variable; only the record of    *)
(* its arrival grows.  Later messages are handled as usual.                *)
(***************************************************************************)
sessionVars ==
  << streamSid, callSid, textAccum, sentDay, sentDinner, sentBev,
     bytesSinceCommit, pendingToTwilio, twilioReady, oaReady, greetingSent,
     activeResponse, callFromCache, tasks >>

effectVars ==
  << twilioState, oaState, oaOut, twilioOut, audioIn, smsLog, searchLog,
     fetches, nText, nStart, nMedia, nDropped, errLog, stopped >>

C12_UnparseableDropped ==
  [][badLog' # badLog => UNCHANGED sessionVars /\ UNCHANGED effectVars]_vars

\* an unparseable message arrived on each leg before the start event, and the
\* start event after them was handled as usual (tone and greeting sent)
C12_Witness ==
  /\ Len(badLog) = 2
  /\ {badLog[1].leg, badLog[2].leg} = {"oa", "twilio"}
  /\ badLog[2].at = 1
  /\ nStart = 1 /\ GreetingCount = 1
  /\ Len(twilioOut) = 1 /\ twilioOut[1].by = "sendBeep"

(***************************************************************************)
(* C13: for every 16-bit sample whose magnitude is above the clip ceiling  *)
(* 32635 (-32768 included) linearToUlaw gives the byte it gives for the    *)
(* ceiling of the same sign, 0x80 for +32635 and 0x00 for -32635: the      *)
(* clipping saturates and does not wrap.                                   *)
(***************************************************************************)
Abs(x) == IF x < 0 THEN -x ELSE x

C13_ClipSaturates ==
  \A i \in 1..(Len(codec) - 1) :
    codec[i].kind = "sample" /\ Abs(codec[i].val) > CLIP =>
      /\ codec[i + 1].val = linearToUlaw(IF codec[i].val < 0 THEN -CLIP ELSE CLIP)
      /\ codec[i + 1].val = (IF codec[i].val < 0 THEN 0 ELSE 128)

\* the most negative sample, whose magnitude is not a 16-bit value, encoded
C13_Witness ==
  /\ Len(codec) >= 2
  /\ codec[1] = [kind |-> "sample", val |-> -32768]
  /\ codec[2] = [kind |-> "byte", val |-> 0]

(***************************************************************************)
(* C14: for every byte b, with s = ulawToLinear(b), the round trip         *)
(* ulawToLinear(linearToUlaw(s)) differs from s by at most the             *)
(* quantization step of b's segment, 2^(exponent+3); and the zero sample   *)
(* round-trips exactly.                                                    *)
(* linearToUlaw does not add the bias the decoder's table includes, so     *)
(* this fails from the second segment on.                                  *)
(***************************************************************************)
SegmentOf(b) == ((255 - b) \div 16) % 8

C14_RoundTripWithinStep ==
  /\ Len(codec) = 4 /\ codec[1].kind = "byte" =>
       Abs(codec[4].val - codec[2].val) <= Pow2(SegmentOf(codec[1].val) + 3)
  /\ Len(codec) >= 3 /\ codec[1] = [kind |-> "sample", val |-> 0] =>
       codec[3].val = 0

(***************************************************************************)
(* C15: once the agent leg has opened and the start event has arrived, in  *)
(* either order and whatever the agent sent in between, the greeting turn  *)
(* request is eventually sent, exactly once (as long as the agent socket   *)
(* is open to send it on).                                                 *)
(* maybeStartGreeting also requires ~activeResponse and is called from the *)
(* open and start handlers only, so this fails when a response.created     *)
(* arrives between the two.                                                *)
(***************************************************************************)
C15_GreetingWhenBothReady ==
  (twilioReady /\ oaReady) ~> (GreetingCount = 1 \/ oaState # "OPEN")

(***************************************************************************)
(* C16: frames queued in pendingToTwilio before the telephony leg was      *)
(* ready are drained once it is: after the start event, while the          *)
(* telephony socket stays open, every queued frame is eventually sent,     *)
(* without a further audio delta having to arrive.                         *)
(* The start handler does not call flushToTwilio, so this fails.           *)
(***************************************************************************)
C16_QueueDrainedAfterStart ==
  (streamSid # NULL /\ pendingToTwilio # <<>>)
    ~> (pendingToTwilio = <<>> \/ twilioState # "OPEN")

(***************************************************************************)
(* C17: a turn request (greeting or menu answer) is sent only in a step    *)
(* that starts with activeResponse false and ends with it true, one per    *)
(* step; a MENU_SEARCH token scanned while a turn is active is removed and *)
(* nothing is sent for it, in that step or in a later one (a menu answer   *)
(* is sent only in the step that scans its token).                         *)
(***************************************************************************)
IsMenuAnswer(m) == m.type = "response.create" /\ m.arg # GREETING

MenuAnswerCount == Cardinality({i \in 1..Len(oaOut) : IsMenuAnswer(oaOut[i])})

C17_TurnRequestOnlyWhenIdle ==
  [][ LET new == {i \in (Len(oaOut) + 1)..Len(oaOut') :
                    oaOut'[i].type = "response.create"}
      IN  /\ new # {} => ~activeResponse /\ activeResponse' /\ Cardinality(new) = 1
          /\ (\E i \in new : IsMenuAnswer(oaOut'[i]))
               => Len(searchLog') = Len(searchLog) + 1
          /\ Len(searchLog') > Len(searchLog) /\ activeResponse
               => oaOut' = oaOut /\ activeResponse'
                  /\ MenuMatchIndex(textAccum') = 0 ]_vars

\* the greeting was sent, one menu question was answered and another, scanned
\* while a turn was active, was dropped
C17_Witness ==
  /\ GreetingCount = 1
  /\ Len(searchLog) = 2
  /\ MenuAnswerCount = 1
  /\ MenuMatchIndex(textAccum) = 0

(***************************************************************************)
(* C18: the handlers of the agent leg's messages run one at a time: a text *)
(* delta is handled only when no earlier handler is still waiting for its  *)
(* address lookup or message delivery, so at most one handler of the       *)
(* session is in progress.                                                 *)
(* The handler is an async function the socket does not wait for, so this  *)
(* fails.                                                                  *)
(***************************************************************************)
C18_OneHandlerAtATime ==
  [][(nText' > nText => tasks = <<>>) /\ Len(tasks') <= 1]_vars

(***************************************************************************)
(* C19: while an address lookup or a message delivery started by a SEND    *)
(* token has not returned, the audio relay goes on: an audio delta that    *)
(* arrives is converted and, the telephony leg being started and open, is  *)
(* sent at once with whatever was queued; telephony media that arrives is  *)
(* forwarded to the agent leg (followed by a commit at the threshold).     *)
(***************************************************************************)
C19_RelayGoesOnWhileStalled ==
  [][ tasks # <<>> /\ tasks' = tasks =>
        /\ Len(audioIn') > Len(audioIn) =>
             /\ AudioSent' \o pendingToTwilio' = AudioReceived'
             /\ streamSid # NULL /\ twilioState = "OPEN" =>
                  /\ pendingToTwilio' = <<>>
                  /\ AudioSent' = AudioSent \o pendingToTwilio
                                    \o << pcm24kToUlaw8k(audioIn'[Len(audioIn')]) >>
        /\ nMedia' > nMedia =>
             /\ Len(oaOut') > Len(oaOut)
             /\ oaOut'[Len(oaOut) + 1].type = "input_audio_buffer.append"
             /\ SubSeq(oaOut', 1, Len(oaOut)) = oaOut ]_vars

\* a handler is still waiting for the call record, and an audio delta that
\* arrived after it began to wait has been sent to the telephony leg
C19_Witness ==
  /\ Len(tasks) = 1
  /\ tasks[1].phase = "fetch"
  /\ tasks[1].seen = 0
  /\ Len(audioIn) = 1
  /\ Len(AudioSent) = 1
  /\ pendingToTwilio = <<>>

(***************************************************************************)
(* C20: once the scan of the accumulator is over (no handler is still in   *)
(* progress), the accumulator holds no complete [[SEND:<KIND>]] token of   *)
(* any kind: repeated tokens and tokens of a kind already dispatched are   *)
(* stripped as well.                                                       *)
(* A block strips the first occurrence only, and a block whose flag is set *)
(* strips nothing, so this fails.                                          *)
(***************************************************************************)
C20_NoSendTokenLeft ==
  tasks = <<>> => \A k \in 1..5 : ~Includes(textAccum, Token(k))

(***************************************************************************)
(* C21: the keyword of both token forms is recognized in any letter case:  *)
(* once the whole token has been streamed it has been stripped from the    *)
(* accumulator, and a MENU_SEARCH token has been looked up, a SEND token   *)
(* has been marked as dispatched, whatever the case it is written in.      *)
(* The SEND blocks test with includes(), which is case-sensitive, so this  *)
(* fails for a SEND token in lower case.                                   *)
(***************************************************************************)
C21_KeywordAnyCase ==
  Len(Streamed) >= TokEnd =>
    /\ textAccum = Cut(Streamed, TokStart, TokEnd)
    /\ script.kind = 0 => searchLog = <<script.q>>
    /\ script.kind = 1 => sentDay

(***************************************************************************)
(* C22: a scan extracts at most one MENU_SEARCH token, the first in the    *)
(* accumulator; a second token that is in the accumulator at the same time *)
(* is ignored, its query never looked up, in that scan or in a later one.  *)
(* The second token stays in the accumulator and the scan of the next      *)
(* delta finds it, so the last part fails.                                 *)
(***************************************************************************)
C22_SecondTokenIgnored ==
  /\ Len(searchLog) <= nText
  /\ \A i \in 1..Len(searchLog) : searchLog[i] # TXT_EYE

(***************************************************************************)
(* C23: callFromCache is insert-if-absent: getFromNumber writes an entry   *)
(* only when the callSid has none at the time of the write, an entry is    *)
(* never changed or removed, and the call record is fetched only on a      *)
(* cache miss, also when two lookups for one callSid are in flight.        *)
(* getFromNumber writes after its await without looking again, so the      *)
(* second of two lookups in flight writes over the entry of the first.     *)
(***************************************************************************)
C23_CacheInsertIfAbsent ==
  [][ /\ \A c \in CallSids :
           callFromCache[c] # NULL => callFromCache'[c] = callFromCache[c]
      /\ fetches' > fetches => callFromCache[callSid'] = NULL
      /\ \A i \in 1..Len(tasks) :
           ( /\ Len(tasks') = Len(tasks)
             /\ tasks[i].phase = "fetch"
             /\ tasks'[i].phase = "deliver" )
             => callFromCache[tasks[i].sid] = NULL ]_vars

(***************************************************************************)
(* C24: the first message sent on the agent leg is session.update, sent by *)
(* the open handler: no turn request, audio append or commit goes out      *)
(* before it, however the telephony events fall relative to the opening.   *)
(***************************************************************************)
C24_SessionUpdateFirst ==
  /\ oaOut # <<>> => oaOut[1].type = "session.update"
  /\ ~oaReady => oaOut = <<>>
  /\ \A i \in 2..Len(oaOut) : oaOut[i].type # "session.update"

\* caller audio arrived while the agent leg was still connecting and was not
\* sent; the open handler sent session.update and then the greeting, and
\* caller audio that arrived after it was appended
C24_Witness ==
  /\ Len(oaOut) = 3
  /\ oaOut[1].type = "session.update"
  /\ oaOut[2] = Msg("response.create", GREETING)
  /\ oaOut[3].type = "input_audio_buffer.append"
  /\ nDropped = 1 /\ oaState = "OPEN"

(***************************************************************************)
(* C25: for MENU_DAY, MENU_DINNER and MENU_BEVERAGE the dispatched flag is *)
(* set, and the token stripped, before the delivery is attempted, and the  *)
(* flag is never reset: a lookup for the kind is begun only in the step    *)
(* that sets its flag, so after a scan with callSid unset, or a lookup or  *)
(* delivery that failed, no delivery of the kind is attempted again; at    *)
(* most one message of the kind is ever handed to sendSMS.                 *)
(***************************************************************************)
Flag(k) == CASE k = 1 -> sentDay [] k = 2 -> sentDinner [] k = 3 -> sentBev

TasksOf(k, ts) == Cardinality({i \in 1..Len(ts) : ts[i].kind = k})

C25_FlagSetBeforeDelivery ==
  /\ [](\A k \in 1..3 : SmsCount(Kinds[k]) <= 1 /\ TasksOf(k, tasks) <= 1)
  /\ [](\A k \in 1..3 : (SmsCount(Kinds[k]) > 0 \/ TasksOf(k, tasks) > 0) => Flag(k))
  /\ [][\A k \in 1..3 :
          /\ Flag(k) => Flag(k)'
          /\ TasksOf(k, tasks') > TasksOf(k, tasks) => ~Flag(k) /\ Flag(k)'
          /\ Flag(k)' /\ ~Flag(k) => ~Includes(textAccum', Token(k))]_vars

\* the day-menu token was scanned before the start event (marked, nothing
\* sent) and again after it: no lookup, no message, the token left in place
C25_Witness ==
  /\ sentDay /\ callSid # NULL
  /\ nText = 2 /\ nStart = 1
  /\ Includes(textAccum, TOK_MENU_DAY)
  /\ tasks = <<>> /\ smsLog = <<>> /\ fetches = 0

(***************************************************************************)
(* C26: a media event received while the agent socket is not open (still   *)
(* connecting, or closing) is neither forwarded nor kept for later: the    *)
(* step changes no session variable, bytesSinceCommit included, and sends  *)
(* nothing.                                                                *)
(***************************************************************************)
C26_MediaDroppedWhenNotOpen ==
  [][nDropped' # nDropped =>
       /\ oaState # "OPEN"
       /\ nDropped' = nDropped + 1
       /\ UNCHANGED sessionVars
       /\ UNCHANGED << twilioState, oaState, oaOut, twilioOut, audioIn, smsLog,
                       searchLog, fetches, nText, nStart, nMedia, errLog,
                       badLog, stopped >>]_vars

\* one media event was forwarded while the agent socket was open; two more
\* arrived while it was not and left the byte count as it was
C26_Witness ==
  /\ nDropped = 2 /\ nMedia = 1
  /\ oaState = "CLOSING"
  /\ bytesSinceCommit \in MediaSizes
  /\ Len(oaOut) = 2

(***************************************************************************)
(* C27: once the telephony leg has closed or a stop event has been         *)
(* handled, a text delta that the agent socket still delivers starts no    *)
(* side effect (no address lookup, no delivery) and sends no turn request. *)
(* No turn request is sent, the agent socket being no longer open; but the *)
(* SEND blocks look at callSid only, so lookups and deliveries are still   *)
(* started.                                                                *)
(***************************************************************************)
TornDown == stopped \/ twilioState = "CLOSED"

C27_NothingAfterTeardown ==
  [][TornDown /\ nText' > nText =>
       /\ fetches' = fetches
       /\ smsLog' = smsLog
       /\ Len(tasks') <= Len(tasks)
       /\ \A i \in (Len(oaOut) + 1)..Len(oaOut') :
            oaOut'[i].type # "response.create"]_vars

(***************************************************************************)
(* C28: an agent message of type error changes no session state, sends     *)
(* nothing and closes no socket; activeResponse keeps its value, and it    *)
(* goes from true to false only when a response.done message is handled.   *)
(***************************************************************************)
C28_ErrorMessageChangesNothing ==
  [][ /\ errLog' # errLog =>
           /\ UNCHANGED sessionVars
           /\ UNCHANGED << twilioState, oaState, oaOut, twilioOut, audioIn,
                           smsLog, searchLog, fetches, nText, nStart, nMedia,
                           nDropped, badLog, stopped >>
      /\ activeResponse /\ ~activeResponse' => OaResponseDone ]_vars

\* the greeting was requested, then a message of type error arrived: the turn
\* is still active
C28_Witness ==
  /\ GreetingCount = 1
  /\ nStart = 1
  /\ Len(errLog) = 1 /\ errLog[1].at = 1
  /\ Inputs = 2
  /\ activeResponse
  /\ oaState = "OPEN" /\ twilioState = "OPEN"

=============================================================================
